---- MODULE Spec2Model ----
(***************************************************************************)
(* Fitz-Man (src/main.py): the frame loop of main(), Game.handle_event,    *)
(* Game.update with its fixed-step tick loop, Game._check_ghost_collision, *)
(* Game._lose_life, Game._advance_level and Game.reset_game.               *)
(*                                                                         *)
(* The level engine (data/field.py: GameEngine, levelGenerate,             *)
(* loopFunction) is not part of src/; it is modelled from spec.md          *)
(* sections 3 and 6 as a small level: a horizontal corridor through the    *)
(* wrap point of the x ring with a short vertical branch, two pellets, a   *)
(* pursuer that starts caged and a pursuer that starts inactive.           *)
(*                                                                         *)
(* Time is counted in milliseconds (clock.tick returns milliseconds and    *)
(* engine_dt = 1/engine_hz seconds = 100 ms).  _anim_t only selects the    *)
(* sprite frame in draw and is not modelled.  The inputs that end the      *)
(* process (pygame.QUIT, Escape) are not among the modelled events.        *)
(*                                                                         *)
(* UnitSpec applies the functions that the frame loop never gets to, or    *)
(* only on few values, to inputs of their own: the distance helpers,       *)
(* _check_ghost_collision on one pursuer at large, and _advance_level.     *)
(***************************************************************************)
EXTENDS Integers, Sequences, FiniteSets, TLC

VARIABLES
    state,          \* self.state: "TITLE" or "PLAY"
    game_over,      \* self.game_over
    score,          \* self.score
    lives,          \* self.lives
    level,          \* self.level
    engine,         \* self.engine (a field.GameEngine)
    engine_accum,   \* self.engine_accum, in milliseconds
    steps,          \* the local `steps` of update
    pc,             \* position of the frame loop
    ticksRun,       \* history: engine.loopFunction calls in the current update call
    lastOp,         \* history: what the last step did
    unit_in,        \* UnitSpec: the input of the function applied
    unit_out        \* UnitSpec: its result

vars == <<state, game_over, score, lives, level, engine, engine_accum, steps,
          pc, ticksRun, lastOp, unit_in, unit_out>>

(***************************************************************************)
(* Program constants.                                                      *)
(***************************************************************************)
WINDOW_W == 540
WINDOW_H == 820
GRID_W == 28
GRID_H == 32
engine_hz == 10
engine_dt == 1000 \div engine_hz
max_steps == 5
W_ABS == GRID_W * 4
H_ABS == GRID_H * 4
PelletReward == 10
StartLives == 2
StartLevel == 1

(***************************************************************************)
(* Bounds of the model.                                                    *)
(***************************************************************************)
\* ticksRun saturates here, so that a loop that does not stop stays finite
MaxTicks == 6
\* the frame intervals (ms) clock.tick may return: half a tick, and ten ticks
DtSet == {50, 10 * engine_dt}
\* sub-units the player may advance in one engine tick
Speeds == {0, 2, 4}
\* sub-units a pursuer may advance in one engine tick
GhostSpeeds == {0, 2}
\* the levels that have a content file
NumLevels == 2
\* UnitSpec: the periods 1 .. MaxPeriod and the coordinates -MaxCoord .. MaxCoord
MaxPeriod == 6
MaxCoord == 7

Abs(n) == IF n < 0 THEN -n ELSE n
Min(a, b) == IF a < b THEN a ELSE b

(***************************************************************************)
(* Coordinate and distance helpers.                                        *)
(***************************************************************************)
\* lines 240-244 without the two reductions modulo the period
wrap_dist_x_raw(a, b, period) ==
    LET d == Abs(a - b)
    IN Min(d, period - d)

\* Python's % with a positive period is TLA+'s %
wrap_dist_x(a, b, period) ==
    LET a1 == a % period
        b1 == b % period
        d == Abs(a1 - b1)
    IN Min(d, period - d)

dist_y(a, b) == Abs(a - b)

\* lines 294-299 with >= for > at line 297
signed_delta_half(a, b, period) ==
    LET a1 == a % period
        b1 == b % period
        d == (a1 - b1) % period
    IN IF d >= period \div 2 THEN d - period ELSE d

signed_delta(a, b, period) ==
    LET a1 == a % period
        b1 == b % period
        d == (a1 - b1) % period
    IN IF d > period \div 2 THEN d - period ELSE d

(***************************************************************************)
(* pygame.Rect and the hit areas.                                          *)
(***************************************************************************)
Rect(l, t, w, h) == [left |-> l, top |-> t, w |-> w, h |-> h]

collidepoint(r, x, y) ==
    /\ r.left <= x /\ x < r.left + r.w
    /\ r.top <= y /\ y < r.top + r.h

\* int(WINDOW_H * 0.64) = 524
start_btn == Rect((WINDOW_W - 180) \div 2, (WINDOW_H * 64) \div 100, 180, 56)

DPadSize == 54
DPadPad == 12
DPadBaseY == WINDOW_H - (DPadSize * 3 + DPadPad * 2) - 30
DPadBaseX == (WINDOW_W - (DPadSize * 3)) \div 2
DPadUp == Rect(DPadBaseX + DPadSize, DPadBaseY, DPadSize, DPadSize)
DPadLeft == Rect(DPadBaseX, DPadBaseY + DPadSize, DPadSize, DPadSize)
DPadRight == Rect(DPadBaseX + DPadSize * 2, DPadBaseY + DPadSize, DPadSize, DPadSize)
DPadDown == Rect(DPadBaseX + DPadSize, DPadBaseY + DPadSize * 2, DPadSize, DPadSize)

dir_for_pos(x, y) ==
    IF collidepoint(DPadUp, x, y) THEN "Up"
    ELSE IF collidepoint(DPadDown, x, y) THEN "Down"
    ELSE IF collidepoint(DPadLeft, x, y) THEN "Left"
    ELSE IF collidepoint(DPadRight, x, y) THEN "Right"
    ELSE "None"

KeyDirs == {"K_LEFT", "K_a", "K_RIGHT", "K_d", "K_UP", "K_w", "K_DOWN", "K_s"}

KEY_TO_DIR(k) ==
    CASE k \in {"K_LEFT", "K_a"} -> "Left"
      [] k \in {"K_RIGHT", "K_d"} -> "Right"
      [] k \in {"K_UP", "K_w"} -> "Up"
      [] k \in {"K_DOWN", "K_s"} -> "Down"

(***************************************************************************)
(* The level engine, from spec.md sections 3 and 6.                        *)
(***************************************************************************)
Pos(x, y) == [x |-> x, y |-> y]

\* line 266 testing isCaged only
Skipped_cagedOnly(g) == g.isCaged

\* line 266: the pursuers the collision check passes over
Skipped(g) == ~g.isActive \/ g.isCaged

\* the corridor: row y = 0 over x in 108..111, 0..4; the branch: x = 0, y in 1..4
Track ==
    {Pos(x, 0) : x \in (W_ABS - 4 .. W_ABS - 1) \cup (0 .. 4)}
        \cup {Pos(0, y) : y \in 1 .. 4}

Tiles == {<<GRID_W - 1, 0>>, <<0, 0>>, <<1, 0>>, <<0, 1>>}

\* position along the corridor, 0 at x = 108
CorridorIndex(x) == (x + 4) % W_ABS

TrackDist(p, q) ==
    IF p.y = 0 /\ q.y = 0 THEN Abs(CorridorIndex(p.x) - CorridorIndex(q.x))
    ELSE IF p.x = 0 /\ q.x = 0 THEN Abs(p.y - q.y)
    ELSE Abs(CorridorIndex(p.x) - CorridorIndex(0)) + p.y
             + Abs(CorridorIndex(q.x) - CorridorIndex(0)) + q.y

\* the player advances along the track, corridor and branch
Moves(p) == {q \in Track : TrackDist(p, q) \in Speeds}

GhostMoves(p) == {q \in Track : TrackDist(p, q) \in GhostSpeeds}

\* Relative (tile) position: integer division of the absolute position
coordinateRel(p) == <<p.x \div 4, p.y \div 4>>

LevelPellets(lvl) ==
    IF lvl = 1 THEN {<<0, 0>>, <<1, 0>>}
    ELSE {<<1, 0>>}

GhostHome == <<Pos(2, 0), Pos(0, 4)>>

NumGhosts == Len(GhostHome)

\* field.GameEngine() followed by levelGenerate(lvl) and isActive = True
FreshEngine(lvl) ==
    [ pac |-> Pos(0, 0),
      pacActive |-> TRUE,
      dirNext |-> "Left",
      ghosts |-> [i \in 1 .. NumGhosts |->
                    [pos |-> GhostHome[i], isActive |-> (i = 1), isCaged |-> (i = 1)]],
      levelObjects |-> [t \in Tiles |->
                    [name |-> IF t \in LevelPellets(lvl) THEN "pellet" ELSE "empty",
                     isDestroyed |-> FALSE]],
      levelPelletRemaining |-> Cardinality(LevelPellets(lvl)) ]

\* one pursuer's advance: a caged pursuer waits or is let out, an inactive one
\* waits or is activated, one at large moves along the track
GhostSteps(g) ==
    IF Skipped(g)
    THEN {g} \cup {[g EXCEPT !.isActive = TRUE, !.isCaged = FALSE, !.pos = q] :
                      q \in GhostMoves(g.pos)}
    ELSE {[g EXCEPT !.pos = q] : q \in GhostMoves(g.pos)}

\* engine.loopFunction(): the engines one tick can produce
loopFunction(e) ==
    { [e EXCEPT !.pac = p, !.ghosts = gs] :
        p \in Moves(e.pac),
        gs \in {f \in [1 .. NumGhosts -> UNION {GhostSteps(e.ghosts[i]) : i \in 1 .. NumGhosts}] :
                   \A i \in 1 .. NumGhosts : f[i] \in GhostSteps(e.ghosts[i])} }

(***************************************************************************)
(* Game._check_ghost_collision.                                            *)
(***************************************************************************)
Overlap(p, q) ==
    /\ wrap_dist_x(p.x, q.x, W_ABS) <= 3
    /\ dist_y(p.y, q.y) <= 3

\* The class defines _wrap_dist_x and _dist_y only: evaluating self._wrap_dist
\* (lines 283-284) raises AttributeError, so a pursuer that is checked and
\* does not overlap ends the check with a fault before the head-on test.
HasWrapDist == FALSE

\* lines 265-319 with _wrap_dist_x called at lines 283-284: the head-on tests
\* of lines 291-317 run on a checked pursuer that does not overlap
RECURSIVE CheckFrom_headon(_, _, _, _)
CheckFrom_headon(i, pac_prev, ghosts_prev, e) ==
    IF i > NumGhosts THEN "none"
    ELSE IF Skipped(e.ghosts[i]) THEN CheckFrom_headon(i + 1, pac_prev, ghosts_prev, e)
    ELSE IF Overlap(e.pac, e.ghosts[i].pos) THEN "hit"
    ELSE LET p == e.pac
             g == e.ghosts[i].pos
             g_prev == ghosts_prev[i]
             dx == wrap_dist_x(p.x, g.x, W_ABS)
             dy == dist_y(p.y, g.y)
             dx_prev == wrap_dist_x(pac_prev.x, g_prev.x, W_ABS)
             dy_prev == wrap_dist_x(pac_prev.y, g_prev.y, H_ABS)
             flip(s_prev, s_now) == s_prev = 0 \/ s_now = 0 \/ (s_prev > 0) # (s_now > 0)
         IN IF /\ dy <= 3 /\ dy_prev <= 3
               /\ flip(signed_delta(pac_prev.x, g_prev.x, W_ABS), signed_delta(p.x, g.x, W_ABS))
            THEN "hit"
            ELSE IF /\ dx <= 3 /\ dx_prev <= 3
                    /\ flip(signed_delta(pac_prev.y, g_prev.y, H_ABS),
                            signed_delta(p.y, g.y, H_ABS))
            THEN "hit"
            ELSE CheckFrom_headon(i + 1, pac_prev, ghosts_prev, e)

RECURSIVE CheckFrom(_, _, _, _)
CheckFrom(i, pac_prev, ghosts_prev, e) ==
    IF i > NumGhosts THEN "none"
    ELSE IF Skipped(e.ghosts[i]) THEN CheckFrom(i + 1, pac_prev, ghosts_prev, e)
    ELSE IF Overlap(e.pac, e.ghosts[i].pos) THEN "hit"
    ELSE IF ~HasWrapDist THEN "fault"
    ELSE "none"

\* "hit": _lose_life ran and True is returned; "none": False is returned;
\* "fault": AttributeError leaves the check, update and main
check_ghost_collision(pac_prev, ghosts_prev, e) == CheckFrom(1, pac_prev, ghosts_prev, e)

(***************************************************************************)
(* Game._lose_life and Game.reset_game, as the session they leave.         *)
(***************************************************************************)
Session ==
    [state |-> state, game_over |-> game_over, score |-> score, lives |-> lives,
     level |-> level, engine |-> engine, engine_accum |-> engine_accum]

\* line 324 with the test one life early
IsOut_early(l) == l <= 0

IsOut(l) == l < 0

\* _lose_life with the score starting over, as in reset_game
lose_life_reset(s) ==
    LET l == s.lives - 1
    IN IF IsOut(l)
       THEN [s EXCEPT !.lives = l, !.game_over = TRUE]
       ELSE [s EXCEPT !.lives = l, !.score = 0, !.engine = FreshEngine(s.level),
                      !.engine_accum = 0]

\* _lose_life run once for every pursuer that overlaps, the loop of lines
\* 265-317 not left at line 279
lose_life_each(s) ==
    LET n == Cardinality({i \in 1 .. NumGhosts :
                 ~Skipped(s.engine.ghosts[i])
                     /\ Overlap(s.engine.pac, s.engine.ghosts[i].pos)})
        l == s.lives - n
    IN IF IsOut(l)
       THEN [s EXCEPT !.lives = l, !.game_over = TRUE]
       ELSE [s EXCEPT !.lives = l, !.engine = FreshEngine(s.level),
                      !.engine_accum = 0]

\* s is the session at the call (its engine already ticked)
lose_life(s) ==
    LET l == s.lives - 1
    IN IF IsOut(l)
       THEN [s EXCEPT !.lives = l, !.game_over = TRUE]
       ELSE [s EXCEPT !.lives = l, !.engine = FreshEngine(s.level),
                      !.engine_accum = 0]

\* os.path.exists("resource/level<n>.txt"): levels 1 .. NumLevels have content
LevelExists(n) == n \in 1 .. NumLevels

\* lines 370-379 without the wrap of lines 373-374
advance_level_nowrap(s) ==
    [s EXCEPT !.level = s.level + 1, !.engine = FreshEngine(s.level + 1),
              !.engine_accum = 0]

\* lines 370-379; nothing in the class calls it
advance_level(s) ==
    LET n == IF LevelExists(s.level + 1) THEN s.level + 1 ELSE 1
    IN [s EXCEPT !.level = n, !.engine = FreshEngine(n), !.engine_accum = 0]

reset_game(s) ==
    [s EXCEPT !.score = 0, !.lives = StartLives, !.level = StartLevel,
              !.game_over = FALSE, !.engine = FreshEngine(StartLevel),
              !.engine_accum = 0]

(***************************************************************************)
(* Input events and Game.handle_event.                                     *)
(***************************************************************************)
\* a confirm key each, a key that means nothing, and keys for two directions
Keys == {"K_RETURN", "K_SPACE", "K_x", "K_RIGHT", "K_d", "K_a"}

\* pixel positions: inside the start button, on its right edge, on the D-pad's
\* Left and Right keys, and in a corner
Points == {<<270, 550>>, <<360, 550>>, <<200, 670>>, <<320, 670>>, <<10, 10>>}

\* normalised finger positions in thousandths: inside the start button, outside
Fingers == {<<500, 670>>, <<500, 100>>}

Ev(t, k, x, y) == [type |-> t, key |-> k, x |-> x, y |-> y]

Events ==
    {Ev("KEYDOWN", k, 0, 0) : k \in Keys}
        \cup {Ev(t, "", p[1], p[2]) : t \in {"MOUSEBUTTONDOWN", "MOUSEBUTTONUP"}, p \in Points}
        \cup {Ev("FINGERDOWN", "", f[1], f[2]) : f \in Fingers}
        \cup {Ev("MOUSEMOTION", "", 0, 0)}

ConfirmKeys == {"K_RETURN", "K_SPACE"}

\* game over: the inputs that restart (mouse events always carry pos)
IsRestart(e) ==
    \/ e.type = "KEYDOWN" /\ e.key \in ConfirmKeys
    \/ e.type \in {"MOUSEBUTTONDOWN", "MOUSEBUTTONUP"}
    \/ e.type = "FINGERDOWN"

\* lines 187, 193, 198 with the instant restart their comment mentions
RestartState_play == "PLAY"

RestartState == "TITLE"

\* lines 211-212 and 220 without the collidepoint tests
IsStart_anyPress(e) ==
    \/ e.type = "KEYDOWN" /\ e.key \in ConfirmKeys
    \/ e.type \in {"MOUSEBUTTONDOWN", "MOUSEBUTTONUP", "FINGERDOWN"}

\* title: the inputs that start play
IsStart(e) ==
    \/ e.type = "KEYDOWN" /\ e.key \in ConfirmKeys
    \/ /\ e.type \in {"MOUSEBUTTONDOWN", "MOUSEBUTTONUP"}
       /\ collidepoint(start_btn, e.x, e.y)
    \/ /\ e.type = "FINGERDOWN"
       /\ collidepoint(start_btn, (e.x * WINDOW_W) \div 1000, (e.y * WINDOW_H) \div 1000)

\* play: the direction an event requests, "None" if it requests none
RequestedDir(e) ==
    IF e.type = "KEYDOWN" /\ e.key \in KeyDirs THEN KEY_TO_DIR(e.key)
    ELSE IF e.type = "MOUSEBUTTONDOWN" THEN dir_for_pos(e.x, e.y)
    ELSE "None"

\* handle_event without the return of line 225: a title input that does not
\* start play goes on to the play handling
handle_event_fallthrough(s, e) ==
    IF s.game_over
    THEN IF IsRestart(e) THEN [reset_game(s) EXCEPT !.state = RestartState] ELSE s
    ELSE IF s.state = "TITLE" /\ IsStart(e) THEN [s EXCEPT !.state = "PLAY"]
    ELSE IF RequestedDir(e) # "None"
         THEN [s EXCEPT !.engine.dirNext = RequestedDir(e)]
         ELSE s

\* the session after handle_event(e)
handle_event(s, e) ==
    IF s.game_over
    THEN IF IsRestart(e) THEN [reset_game(s) EXCEPT !.state = RestartState] ELSE s
    ELSE IF s.state = "TITLE"
    THEN IF IsStart(e) THEN [s EXCEPT !.state = "PLAY"] ELSE s
    ELSE IF RequestedDir(e) # "None"
         THEN [s EXCEPT !.engine.dirNext = RequestedDir(e)]
         ELSE s

EventOp(s, e) ==
    IF s.game_over THEN (IF IsRestart(e) THEN "restart" ELSE "swallow")
    ELSE IF s.state = "TITLE" THEN (IF IsStart(e) THEN "start" ELSE "swallow")
    ELSE IF RequestedDir(e) # "None" THEN "dir" ELSE "ignored"

Install(s) ==
    /\ state' = s.state
    /\ game_over' = s.game_over
    /\ score' = s.score
    /\ lives' = s.lives
    /\ level' = s.level
    /\ engine' = s.engine
    /\ engine_accum' = s.engine_accum

(***************************************************************************)
(* The frame loop of main(): events, update(dt), draw.                     *)
(***************************************************************************)
Init ==
    /\ state = "TITLE"
    /\ game_over = FALSE
    /\ score = 0
    /\ lives = StartLives
    /\ level = StartLevel
    /\ engine = FreshEngine(StartLevel)
    /\ engine_accum = 0
    /\ steps = 0
    /\ pc = "poll"
    /\ ticksRun = 0
    /\ lastOp = "init"
    /\ unit_in = [kind |-> "none"]
    /\ unit_out = [done |-> FALSE]

\* one event of the for loop over pygame.event.get()
HandleEvent ==
    /\ pc = "poll"
    /\ \E e \in Events :
         /\ Install(handle_event(Session, e))
         /\ lastOp' = EventOp(Session, e)
    /\ UNCHANGED <<steps, pc, ticksRun, unit_in, unit_out>>

\* line 335 without the state test
UpdateReturnsEarly_flagOnly(go, st) == go

\* line 335 testing the state only
UpdateReturnsEarly_stateOnly(go, st) == st # "PLAY"

UpdateReturnsEarly(go, st) == go \/ st # "PLAY"

\* update(dt) up to the head of the while loop
Update ==
    /\ pc = "poll"
    /\ \E dt \in DtSet :
         IF UpdateReturnsEarly(game_over, state)
         THEN /\ pc' = "draw"
              /\ lastOp' = "update_noop"
              /\ UNCHANGED <<engine_accum, steps, ticksRun>>
         ELSE /\ engine_accum' = engine_accum + dt
              /\ steps' = 0
              /\ ticksRun' = 0
              /\ pc' = "loop"
              /\ lastOp' = "update"
    /\ UNCHANGED <<state, game_over, score, lives, level, engine, unit_in, unit_out>>

LoopGuard(acc, n) == acc >= engine_dt /\ n < max_steps

\* line 357 without the y test
OnGrid_xOnly(p) == p.x % 4 = 0

OnGrid(p) == p.x % 4 = 0 /\ p.y % 4 = 0

InGrid(t) == 0 <= t[1] /\ t[1] < GRID_W /\ 0 <= t[2] /\ t[2] < GRID_H

\* lines 356-365: the engine and score after pellet handling
EatPellet(e, sc) ==
    LET t == coordinateRel(e.pac)
    IN IF /\ OnGrid(e.pac)
          /\ InGrid(t)
          /\ e.levelObjects[t].name = "pellet"
          /\ ~e.levelObjects[t].isDestroyed
       THEN [engine |-> [e EXCEPT !.levelObjects[t] = [name |-> "empty", isDestroyed |-> TRUE],
                                  !.levelPelletRemaining = @ - 1],
             score |-> sc + PelletReward]
       ELSE [engine |-> e, score |-> sc]

\* one iteration of the while loop.  The body neither subtracts engine_dt from
\* engine_accum nor increments steps, and the `if levelPelletRemaining <= 0:`
\* that ends it (line 368) has no statement under it.
Tick ==
    /\ pc = "loop"
    /\ LoopGuard(engine_accum, steps)
    /\ \E e2 \in loopFunction(engine) :
         LET pac_prev == engine.pac
             ghosts_prev == [i \in 1 .. NumGhosts |-> engine.ghosts[i].pos]
             res == check_ghost_collision(pac_prev, ghosts_prev, e2)
             ticked == [Session EXCEPT !.engine = e2]
             eaten == EatPellet(e2, score)
         IN CASE res = "fault" ->
                   /\ Install(ticked)
                   /\ pc' = "crashed"
                   /\ lastOp' = "tick_fault"
              [] res = "hit" ->
                   /\ Install(lose_life(ticked))
                   /\ pc' = "draw"
                   /\ lastOp' = "tick_hit"
              [] res = "none" ->
                   /\ Install([ticked EXCEPT !.engine = eaten.engine,
                                             !.score = eaten.score])
                   /\ pc' = "loop"
                   /\ lastOp' = IF eaten.score # score THEN "tick_eat" ELSE "tick"
    /\ ticksRun' = Min(ticksRun + 1, MaxTicks)
    /\ UNCHANGED <<steps, unit_in, unit_out>>

\* the while condition is false: update returns
LoopExit ==
    /\ pc = "loop"
    /\ ~LoopGuard(engine_accum, steps)
    /\ pc' = "draw"
    /\ lastOp' = "exit"
    /\ UNCHANGED <<state, game_over, score, lives, level, engine, engine_accum,
                   steps, ticksRun, unit_in, unit_out>>

\* g.draw(); the next frame follows
Draw ==
    /\ pc = "draw"
    /\ pc' = "poll"
    /\ ticksRun' = 0
    /\ lastOp' = "draw"
    /\ UNCHANGED <<state, game_over, score, lives, level, engine, engine_accum, steps,
                   unit_in, unit_out>>

Next == HandleEvent \/ Update \/ Tick \/ LoopExit \/ Draw

Spec == Init /\ [][Next]_vars

\* update and draw are sequential code: an iteration of the tick loop, its exit
\* and the draw that follows are taken when they are due
FairSpec == Spec /\ WF_vars(Tick) /\ WF_vars(LoopExit) /\ WF_vars(Draw)

(***************************************************************************)
(* UnitSpec: one function applied to one input.                            *)
(***************************************************************************)
UnitCoords ==
    (-MaxCoord .. MaxCoord)
        \cup (W_ABS \div 2 - 1 .. W_ABS \div 2 + 1) \cup (W_ABS - 1 .. W_ABS + 1)

DistArgs ==
    {[kind |-> "dist", a |-> a, b |-> b, p |-> p] :
        a \in UnitCoords, b \in UnitCoords, p \in (1 .. MaxPeriod) \cup {W_ABS}}

\* sub-units an agent advances along one axis in a tick
Deltas == {-4, -2, -1, 0, 1, 2, 4}

StepsOf(p) ==
    {Pos((p.x + d) % W_ABS, p.y) : d \in Deltas}
        \cup {Pos(p.x, p.y + d) : d \in {c \in Deltas : p.y + c \in 0 .. H_ABS - 1}}

PlayerPrev == {Pos(0, 0), Pos(1, 0), Pos(2, 0), Pos(0, 2)}

PursuerPrev ==
    {Pos(0, 0), Pos(3, 0), Pos(5, 0), Pos(W_ABS \div 2, 0), Pos(W_ABS \div 2 + 1, 0),
     Pos(W_ABS - 2, 0), Pos(W_ABS - 1, 0), Pos(0, 3), Pos(0, H_ABS \div 2),
     Pos(0, H_ABS \div 2 + 1), Pos(2, H_ABS \div 2 + 2)}

\* the samples of a tick: player and pursuer before (pp, gp) and after (pn, gn)
CheckArgs ==
    {[kind |-> "check", pp |-> pp, gp |-> gp, pn |-> pn, gn |-> gn] :
        pp \in PlayerPrev, gp \in PursuerPrev,
        pn \in UNION {StepsOf(q) : q \in PlayerPrev},
        gn \in UNION {StepsOf(q) : q \in PursuerPrev}}

CheckInputs == {h \in CheckArgs : h.pn \in StepsOf(h.pp) /\ h.gn \in StepsOf(h.gp)}

\* the ticked engine of a sample: the player at pn, pursuer 1 at large at gn,
\* pursuer 2 inactive at home
SampleEngine(pn, gn) ==
    [FreshEngine(StartLevel) EXCEPT
        !.pac = pn,
        !.ghosts[1] = [pos |-> gn, isActive |-> TRUE, isCaged |-> FALSE]]

\* a level with every pellet eaten
Exhausted(lvl) ==
    [FreshEngine(lvl) EXCEPT
        !.levelObjects = [t \in Tiles |->
            IF t \in LevelPellets(lvl) THEN [name |-> "empty", isDestroyed |-> TRUE]
            ELSE [name |-> "empty", isDestroyed |-> FALSE]],
        !.levelPelletRemaining = 0,
        !.pac = Pos(4, 0)]

AdvanceArgs ==
    {[kind |-> "advance",
      s |-> [state |-> "PLAY", game_over |-> FALSE, score |-> sc, lives |-> l,
             level |-> lvl, engine |-> Exhausted(lvl), engine_accum |-> acc]] :
        sc \in {0, PelletReward, 5 * PelletReward}, l \in 0 .. StartLives,
        lvl \in 1 .. NumLevels, acc \in {engine_dt, 10 * engine_dt}}

UnitInit ==
    /\ state = "TITLE"
    /\ game_over = FALSE
    /\ score = 0
    /\ lives = StartLives
    /\ level = StartLevel
    /\ engine = FreshEngine(StartLevel)
    /\ engine_accum = 0
    /\ steps = 0
    /\ pc = "unit"
    /\ ticksRun = 0
    /\ lastOp = "init"
    /\ unit_in \in DistArgs \cup CheckInputs \cup AdvanceArgs
    /\ unit_out = [done |-> FALSE]

UnitFrame ==
    UNCHANGED <<state, game_over, score, lives, level, engine, engine_accum, steps,
                pc, ticksRun, lastOp, unit_in>>

ApplyDist ==
    /\ pc = "unit" /\ ~unit_out.done /\ unit_in.kind = "dist"
    /\ unit_out' = [done |-> TRUE,
                    wd |-> wrap_dist_x(unit_in.a, unit_in.b, unit_in.p),
                    wd_rev |-> wrap_dist_x(unit_in.b, unit_in.a, unit_in.p),
                    sd |-> signed_delta(unit_in.a, unit_in.b, unit_in.p)]
    /\ UnitFrame

\* _check_ghost_collision(pac_prev, ghosts_prev) on a sample, in a Play session
\* with all its lives
ApplyCheck ==
    /\ pc = "unit" /\ ~unit_out.done /\ unit_in.kind = "check"
    /\ LET e == SampleEngine(unit_in.pn, unit_in.gn)
           s == [state |-> "PLAY", game_over |-> FALSE, score |-> 0,
                 lives |-> StartLives, level |-> StartLevel, engine |-> e,
                 engine_accum |-> engine_dt]
           v == check_ghost_collision(unit_in.pp, <<unit_in.gp, GhostHome[2]>>, e)
       IN unit_out' = [done |-> TRUE, verdict |-> v,
                       lives |-> IF v = "hit" THEN lose_life(s).lives ELSE s.lives]
    /\ UnitFrame

ApplyAdvance ==
    /\ pc = "unit" /\ ~unit_out.done /\ unit_in.kind = "advance"
    /\ unit_out' = [done |-> TRUE, s |-> advance_level(unit_in.s)]
    /\ UnitFrame

UnitNext == ApplyDist \/ ApplyCheck \/ ApplyAdvance

UnitSpec == UnitInit /\ [][UnitNext]_vars

\* The state machine of spec.md 4.4 as the code holds it: game_over is tested
\* before state by handle_event (184, 204), update (335) and draw (398, 440)
MachineState ==
    IF game_over THEN "GameOver" ELSE IF state = "TITLE" THEN "Title" ELSE "Play"

TypeOK ==
    /\ state \in {"TITLE", "PLAY"}
    /\ game_over \in BOOLEAN
    /\ score \in Nat
    /\ lives \in -1 .. StartLives
    /\ level \in Nat
    /\ engine.pac \in Track
    /\ engine_accum \in Nat
    /\ steps \in 0 .. max_steps
    /\ pc \in {"poll", "loop", "draw", "crashed", "unit"}
    /\ ticksRun \in 0 .. MaxTicks

(***************************************************************************)
(* Properties.                                                             *)
(***************************************************************************)
TickOps == {"tick", "tick_eat", "tick_hit", "tick_fault"}

\* C1: a call of update in Play runs at most max_steps = 5 engine ticks.
C1_TickCap == ticksRun <= max_steps

\* C2: every call of update terminates: once in the tick loop, the frame loop
\* gets out of it (to draw).
C2_UpdateTerminates == (pc = "loop") ~> (pc # "loop")

\* C3: each tick that update runs through (no collision) takes exactly one
\* tick duration off the time budget.
C3_TickConsumesBudget ==
    [][(pc = "loop" /\ pc' = "loop") => engine_accum' = engine_accum - engine_dt]_vars

\* C4: after a tick, if some active, non-caged pursuer overlaps the player
\* (wrap distance <= 3 on x, linear distance <= 3 on y), the collision check
\* returned true and the life-loss path ran.
C4_OverlapDetected ==
    (/\ lastOp \in TickOps
     /\ \E i \in 1 .. NumGhosts :
          ~Skipped(engine.ghosts[i]) /\ Overlap(engine.pac, engine.ghosts[i].pos))
        => lastOp = "tick_hit"

\* the head-on condition of C5 on the samples before (pp, gp) and after (pn, gn)
TunnelCase(pp, gp, pn, gn) ==
    LET sxp == signed_delta(pp.x, gp.x, W_ABS)
        sxn == signed_delta(pn.x, gn.x, W_ABS)
        syp == pp.y - gp.y
        syn == pn.y - gn.y
    IN \/ /\ dist_y(pp.y, gp.y) <= 3 /\ dist_y(pn.y, gn.y) <= 3
          /\ (sxp = 0 \/ sxn = 0 \/ (sxp > 0) # (sxn > 0))
       \/ /\ wrap_dist_x(pp.x, gp.x, W_ABS) <= 3 /\ wrap_dist_x(pn.x, gn.x, W_ABS) <= 3
          /\ (syp = 0 \/ syn = 0 \/ (syp > 0) # (syn > 0))

\* C5: a tick in which an active, non-caged pursuer fails the overlap test but
\* meets the head-on condition ends with the collision check returning true.
C5_TunnelDetected ==
    [][(/\ pc = "loop"
        /\ lastOp' \in {"tick", "tick_eat", "tick_fault"}
        /\ \E i \in 1 .. NumGhosts :
             /\ ~Skipped(engine'.ghosts[i])
             /\ ~Overlap(engine'.pac, engine'.ghosts[i].pos)
             /\ TunnelCase(engine.pac, engine.ghosts[i].pos,
                           engine'.pac, engine'.ghosts[i].pos))
       => FALSE]_vars

\* C6: a detected collision takes exactly one life; from lives = 0 the machine
\* goes to GameOver with score, level and the ticked level state kept and no
\* further tick; with lives left the machine stays in Play with a fresh level
\* state for the same level, the player active and the time budget 0.
C6_LifeLoss ==
    [][lastOp' = "tick_hit" =>
         /\ pc = "loop"
         /\ lives' = lives - 1
         /\ score' = score
         /\ level' = level
         /\ pc' # "loop"
         /\ lives = 0 =>
              /\ lives' = -1
              /\ MachineState' = "GameOver"
              /\ engine'.levelObjects = engine.levelObjects
              /\ engine'.levelPelletRemaining = engine.levelPelletRemaining
              /\ engine'.pac \in Moves(engine.pac)
              /\ engine_accum' = engine_accum
         /\ lives >= 1 =>
              /\ MachineState' = "Play"
              /\ engine' = FreshEngine(level)
              /\ engine'.pacActive
              /\ engine_accum' = 0]_vars

C6_Witness == lastOp = "tick_hit" /\ lives = -1 /\ game_over /\ score > 0

\* the inputs C7 names: a confirm key, a pointer press or release, a touch press
RestartInputs ==
    {e \in Events :
       \/ e.type = "KEYDOWN" /\ e.key \in {"K_RETURN", "K_SPACE"}
       \/ e.type \in {"MOUSEBUTTONDOWN", "MOUSEBUTTONUP", "FINGERDOWN"}}

Restarted(s) ==
    /\ s.score = 0 /\ s.lives = 2 /\ s.level = 1 /\ ~s.game_over
    /\ s.engine_accum = 0 /\ s.engine = FreshEngine(1) /\ s.state = "TITLE"

\* C7: in GameOver every restart input resets score, lives, level, the
\* game-over flag, the time budget and the level state and leads to Title, from
\* where a confirm key starts Play on that session; and every restart step
\* leaves exactly that session.
C7_Restart ==
    /\ [](MachineState = "GameOver" =>
            \A e \in RestartInputs :
               LET s2 == handle_event(Session, e)
               IN /\ Restarted(s2)
                  /\ \A k \in {"K_RETURN", "K_SPACE"} :
                       handle_event(s2, Ev("KEYDOWN", k, 0, 0)) = [s2 EXCEPT !.state = "PLAY"])
    /\ [][lastOp' = "restart" => (MachineState = "GameOver" /\ Restarted(Session'))]_vars

C7_Witness == lastOp = "restart" /\ Restarted(Session)

\* C8: score moves during play only by a pellet eat: the player is then exactly
\* on a tile centre, the tile was an undestroyed pellet and is now empty and
\* destroyed, score is up by 10 and the pellet counter down by 1; a tick
\* without collision that ends on an undestroyed pellet's centre eats it; a
\* destroyed tile stays destroyed and empty while its level state lives.
C8_PelletEat ==
    [][/\ (score' # score /\ lastOp' # "restart") =>
            LET p == engine'.pac
                t == coordinateRel(p)
            IN /\ lastOp' = "tick_eat"
               /\ p.x % 4 = 0 /\ p.y % 4 = 0
               /\ engine.levelObjects[t] = [name |-> "pellet", isDestroyed |-> FALSE]
               /\ engine'.levelObjects[t] = [name |-> "empty", isDestroyed |-> TRUE]
               /\ \A u \in Tiles \ {t} : engine'.levelObjects[u] = engine.levelObjects[u]
               /\ score' = score + 10
               /\ engine'.levelPelletRemaining = engine.levelPelletRemaining - 1
       /\ lastOp' \in {"tick", "tick_eat"} =>
            LET p == engine'.pac
                t == coordinateRel(p)
            IN (/\ p.x % 4 = 0 /\ p.y % 4 = 0
                /\ engine.levelObjects[t] = [name |-> "pellet", isDestroyed |-> FALSE])
                 <=> score' = score + 10
       /\ lastOp' \notin {"tick_hit", "restart"} =>
            \A u \in Tiles :
               engine.levelObjects[u].isDestroyed =>
                  engine'.levelObjects[u] = [name |-> "empty", isDestroyed |-> TRUE]]_vars

C8_Witness ==
    /\ lastOp = "tick_eat"
    /\ engine.levelObjects[coordinateRel(engine.pac)].isDestroyed
    /\ engine.levelPelletRemaining = 0
    /\ score = Cardinality(LevelPellets(StartLevel)) * PelletReward

\* C9: when the pellet counter reaches 0 the tick loop of that frame ends and a
\* fresh level state with pellets is installed before any further tick: the
\* head of the tick loop never sees an exhausted level.
C9_LevelAdvance == pc = "loop" => engine.levelPelletRemaining > 0

\* C10: update outside Play, or when game over, runs no tick and leaves score,
\* lives, level, the time budget, the game-over flag, the state and the level
\* state as they were; the tick loop is only ever entered in Play.
C10_UpdateNoOp ==
    /\ [](pc = "loop" => (state = "PLAY" /\ ~game_over))
    /\ [][(pc = "poll" /\ pc' # "poll" /\ (game_over \/ state # "PLAY")) =>
            /\ pc' = "draw"
            /\ ticksRun' = ticksRun
            /\ Session' = Session]_vars

C10_Witness == lastOp = "update_noop" /\ game_over /\ engine_accum > 0

\* inside the start control, in window pixels
InStartControl(x, y) == x >= 180 /\ x < 360 /\ y >= 524 /\ y < 580

\* Title's trigger as spec.md 4.4 words it: presses only
PressTrigger(e) ==
    \/ e.type = "KEYDOWN" /\ e.key \in {"K_RETURN", "K_SPACE"}
    \/ e.type = "MOUSEBUTTONDOWN" /\ InStartControl(e.x, e.y)
    \/ e.type = "FINGERDOWN"
         /\ InStartControl((e.x * WINDOW_W) \div 1000, (e.y * WINDOW_H) \div 1000)

\* Title's trigger with the pointer release the handler also takes
StartTrigger(e) ==
    PressTrigger(e) \/ (e.type = "MOUSEBUTTONUP" /\ InStartControl(e.x, e.y))

\* the machine moves only along Title -> Play, Play -> GameOver, GameOver -> Title
MachineGraph ==
    MachineState' # MachineState =>
        \/ MachineState = "Title" /\ MachineState' = "Play" /\ lastOp' = "start"
        \/ /\ MachineState = "Play" /\ MachineState' = "GameOver"
           /\ lastOp' = "tick_hit" /\ lives = 0 /\ lives' < 0
        \/ MachineState = "GameOver" /\ MachineState' = "Title" /\ lastOp' = "restart"

\* C11 as stated: the machine starts in Title and moves only along Title ->
\* Play, Play -> GameOver (a life loss taking lives below zero) and GameOver ->
\* Title (restart), and in Title the only inputs that start Play are a confirm
\* key and a pointer or touch press inside the start control.
C11_PressOnly ==
    /\ MachineState = "Title"
    /\ [](MachineState = "Title" =>
            \A e \in Events :
               handle_event(Session, e).state = "PLAY" => PressTrigger(e))
    /\ [][MachineGraph]_vars

\* C11, amended: the machine starts in Title, is always in exactly one of the
\* three states, and moves only along Title -> Play, Play -> GameOver (a life
\* loss taking lives below zero) and GameOver -> Title (restart); in Title the
\* inputs that start Play are exactly a confirm key, a pointer press or release
\* inside the start control and a touch press inside it.
C11_StateMachine ==
    /\ MachineState = "Title"
    /\ [](/\ state \in {"TITLE", "PLAY"}
          /\ game_over => state = "PLAY"
          /\ MachineState = "Title" =>
               \A e \in Events :
                  /\ handle_event(Session, e).state = "PLAY" <=> StartTrigger(e)
                  /\ ~handle_event(Session, e).game_over)
    /\ [][MachineGraph]_vars

C11_Witness == MachineState = "Title" /\ lastOp = "restart"

\* the events that are not the trigger of the machine's state, with Title's
\* trigger given by T
Others(T(_)) ==
    {e \in Events :
       IF MachineState = "Title" THEN ~T(e) ELSE e \notin RestartInputs}

\* C12 as stated: in Title and in GameOver every input other than the state's
\* trigger (Title: confirm key or press inside the start control) leaves the
\* whole session as it was.
C12_PressOnly ==
    MachineState \in {"Title", "GameOver"} =>
        \A e \in Others(PressTrigger) : handle_event(Session, e) = Session

\* C12, amended: in Title and in GameOver every input other than the state's
\* trigger (Title: confirm key, pointer press or release inside the start
\* control, touch press inside it; GameOver: confirm key, any pointer press or
\* release, any touch press) leaves machine state, score, lives, level, time
\* budget, level state and the player's next direction as they were; and every
\* swallowing step of the frame loop leaves the session as it was.
C12_Swallow ==
    /\ [](MachineState \in {"Title", "GameOver"} =>
            \A e \in Others(StartTrigger) : handle_event(Session, e) = Session)
    /\ [][lastOp' = "swallow" =>
            /\ MachineState \in {"Title", "GameOver"}
            /\ Session' = Session /\ pc' = pc /\ ticksRun' = ticksRun]_vars

C12_Witness == lastOp = "swallow" /\ MachineState = "Title" /\ lives = StartLives

\* the distance helpers have been applied to unit_in
DistDone == unit_out.done /\ unit_in.kind = "dist"

\* C13: for every positive period p and all integers a, b (negative ones and
\* ones outside 0 .. p-1 too) the wrap distance is symmetric and lies between
\* 0 and p/2.
C13_WrapDistance ==
    DistDone =>
        /\ unit_out.wd = unit_out.wd_rev
        /\ unit_out.wd = wrap_dist_x(unit_in.b, unit_in.a, unit_in.p)
        /\ 0 <= unit_out.wd
        /\ 2 * unit_out.wd <= unit_in.p

C13_Witness ==
    /\ DistDone
    /\ unit_in.a < 0 /\ unit_in.b > unit_in.p
    /\ unit_out.wd > 0 /\ 2 * unit_out.wd = unit_in.p

\* C14: for every positive period p and all integers a, b the signed wrap
\* delta is 0 exactly when the wrap distance is 0, its absolute value is the
\* wrap distance, and it lies in the range from -p/2 exclusive to p/2 inclusive.
C14_SignedDelta ==
    DistDone =>
        /\ unit_out.sd = 0 <=> unit_out.wd = 0
        /\ Abs(unit_out.sd) = unit_out.wd
        /\ 2 * unit_out.sd > -unit_in.p
        /\ 2 * unit_out.sd <= unit_in.p

C14_Witness ==
    /\ DistDone
    /\ unit_in.a > unit_in.b /\ unit_in.b < 0
    /\ unit_out.sd < 0 /\ unit_out.wd = -unit_out.sd

\* what the collision check answers on engine e
Verdict(e) ==
    check_ghost_collision(e.pac, [i \in 1 .. NumGhosts |-> e.ghosts[i].pos], e)

\* engine e with pursuer i at q
Moved(e, i, q) == [e EXCEPT !.ghosts[i].pos = q]

\* the states whose engine is the one a tick just checked
JustChecked ==
    lastOp \in {"tick", "tick_eat", "tick_fault"} \/ (lastOp = "tick_hit" /\ game_over)

\* C15: inactive and caged pursuers are passed over by the collision check:
\* with every pursuer inactive or caged the check returns false and lives is
\* unchanged wherever the pursuers are, exact overlap included; and wherever an
\* inactive or caged pursuer stands, the verdict on the others is the same.
C15_SkippedIgnored ==
    /\ [](JustChecked =>
            /\ (\A i \in 1 .. NumGhosts :
                   ~engine.ghosts[i].isActive \/ engine.ghosts[i].isCaged)
                 => (lastOp \in {"tick", "tick_eat"} /\ Verdict(engine) = "none")
            /\ \A i \in 1 .. NumGhosts :
                 (~engine.ghosts[i].isActive \/ engine.ghosts[i].isCaged) =>
                    \A q \in Track : Verdict(Moved(engine, i, q)) = Verdict(engine))
    /\ [][lastOp' \in {"tick", "tick_eat"} =>
            (lives' = lives /\ game_over' = game_over)]_vars

C15_Witness ==
    /\ lastOp = "tick"
    /\ \A i \in 1 .. NumGhosts : ~engine.ghosts[i].isActive \/ engine.ghosts[i].isCaged
    /\ engine.ghosts[1].pos = engine.pac

\* C15's second half where it matters: a pursuer at large decides the verdict
\* while a caged one stands on the player
C15_WitnessOthers ==
    /\ lastOp = "tick_fault"
    /\ engine.ghosts[1].isCaged /\ engine.ghosts[1].pos = engine.pac
    /\ ~engine.ghosts[2].isCaged /\ engine.ghosts[2].isActive

\* C16: the tick in which the collision check returns true is the last tick
\* of its update call whatever budget remains: update returns with exactly one
\* life taken, however many pursuers caught the player, with no pellet
\* credited and the level index as it was, and nothing but the next frame
\* follows.
C16_CollisionEndsLoop ==
    /\ [](lastOp = "tick_hit" => pc = "draw")
    /\ [][lastOp' = "tick_hit" =>
            /\ pc = "loop" /\ pc' = "draw"
            /\ lives' = lives - 1
            /\ score' = score
            /\ level' = level
            /\ game_over' =>
                 /\ engine'.levelObjects = engine.levelObjects
                 /\ engine'.levelPelletRemaining = engine.levelPelletRemaining]_vars
    /\ [][lastOp = "tick_hit" =>
            (lastOp' = "draw" /\ lives' = lives /\ ticksRun' = 0)]_vars

\* both pursuers catch the player in one tick, budget for more ticks left
C16_Witness ==
    /\ lastOp = "tick_hit" /\ game_over /\ lives = -1
    /\ engine_accum >= 2 * engine_dt
    /\ \A i \in 1 .. NumGhosts :
         ~Skipped(engine.ghosts[i]) /\ Overlap(engine.pac, engine.ghosts[i].pos)

\* _advance_level has been applied to the session unit_in.s
AdvanceDone == unit_out.done /\ unit_in.kind = "advance"

\* C17: level advance makes the level index one more, or 1 when the index
\* above has no content; installs a fresh level state of that index with the
\* player active and the time budget 0; and leaves score, lives, the game-over
\* flag and the machine state (Play) as they were.
C17_AdvanceLevel ==
    AdvanceDone =>
        LET s == unit_in.s
            t == unit_out.s
        IN /\ t.level = IF s.level < NumLevels THEN s.level + 1 ELSE 1
           /\ t.engine = FreshEngine(t.level)
           /\ t.engine.pacActive
           /\ t.engine.levelPelletRemaining > 0
           /\ \A u \in Tiles : ~t.engine.levelObjects[u].isDestroyed
           /\ t.engine_accum = 0
           /\ t.score = s.score /\ t.lives = s.lives
           /\ t.game_over = s.game_over /\ t.state = s.state
           /\ ~t.game_over /\ t.state = "PLAY"

C17_Witness ==
    /\ AdvanceDone
    /\ unit_in.s.level = NumLevels /\ unit_out.s.level = 1
    /\ unit_in.s.engine_accum > 0 /\ unit_in.s.engine.levelPelletRemaining = 0
    /\ unit_out.s.score > 0 /\ unit_out.s.lives < StartLives

\* the collision check has been applied to the sample of unit_in
CheckDone == unit_out.done /\ unit_in.kind = "check"

\* the most an agent moves along an axis in a tick
StepMax == CHOOSE d \in Deltas : \A c \in Deltas : c <= d

\* separations s_prev, s_now along an axis of two agents that met on it during
\* the tick: the separation reached 0 or changed sign, over no more than the
\* two agents' moves
RealCrossing(s_prev, s_now) ==
    /\ s_prev = 0 \/ s_now = 0 \/ (s_prev > 0) # (s_now > 0)
    /\ Abs(s_prev) + Abs(s_now) <= 2 * StepMax

\* player and pursuer of sample h, in line on the other axis at both samples,
\* passed through a common coordinate of the x ring or of the y axis during
\* the tick
Crossed(h) ==
    \/ /\ dist_y(h.pp.y, h.gp.y) <= 3 /\ dist_y(h.pn.y, h.gn.y) <= 3
       /\ RealCrossing(signed_delta(h.pp.x, h.gp.x, W_ABS),
                       signed_delta(h.pn.x, h.gn.x, W_ABS))
    \/ /\ wrap_dist_x(h.pp.x, h.gp.x, W_ABS) <= 3 /\ wrap_dist_x(h.pn.x, h.gn.x, W_ABS) <= 3
       /\ RealCrossing(h.pp.y - h.gp.y, h.pn.y - h.gn.y)

\* C18: with each agent moving at most 4 sub-units a tick, the collision check
\* reports a pursuer that fails the overlap test (returns true, a life lost)
\* only if player and pursuer passed through a common coordinate of the
\* tested axis during the tick; a pair that did not, in particular one far
\* apart at both samples (near-antipodal on the x ring of period 112, or half
\* the grid height apart on y), is not reported and costs no life.
C18_NoFalseReport ==
    (/\ CheckDone
     /\ ~(/\ wrap_dist_x(unit_in.pn.x, unit_in.gn.x, W_ABS) <= 3
          /\ dist_y(unit_in.pn.y, unit_in.gn.y) <= 3))
        => ((unit_out.verdict = "hit" \/ unit_out.lives # StartLives) => Crossed(unit_in))

\* a pair in line on y, near-antipodal on the x ring at both samples, whose
\* signed x delta changes sign through the half period, has been checked
C18_Witness ==
    /\ CheckDone
    /\ unit_in.pp.y = unit_in.gp.y /\ unit_in.pn.y = unit_in.gn.y
    /\ wrap_dist_x(unit_in.pp.x, unit_in.gp.x, W_ABS) >= W_ABS \div 2 - 1
    /\ wrap_dist_x(unit_in.pn.x, unit_in.gn.x, W_ABS) >= W_ABS \div 2 - 1
    /\ signed_delta(unit_in.pp.x, unit_in.gp.x, W_ABS) > 0
    /\ signed_delta(unit_in.pn.x, unit_in.gn.x, W_ABS) < 0
    /\ unit_out.verdict # "hit" /\ unit_out.lives = StartLives

\* C19: in every reachable state -1 <= lives <= 2 and the session is game-over
\* exactly when lives < 0; lives moves only down by one on a collision in Play
\* or back to 2 on a restart, and from -1 it moves only by a restart.
C19_LivesRange ==
    /\ [](/\ -1 <= lives /\ lives <= 2
          /\ game_over <=> lives < 0)
    /\ [][lives' # lives =>
            \/ lastOp' = "tick_hit" /\ lives' = lives - 1 /\ lives >= 0
            \/ lastOp' = "restart" /\ lives' = 2 /\ lives = -1]_vars

\* frames go by in GameOver and lives stays -1
C19_Witness == lives = -1 /\ lastOp = "update_noop" /\ engine_accum >= engine_dt

\* C20: score is never negative and never goes down during play: it moves
\* only up by 10 on a pellet eat, a life loss leaves it as it was, and only a
\* restart from GameOver sets it to 0.
C20_ScoreMonotone ==
    /\ [](score >= 0)
    /\ [][score' # score =>
            \/ lastOp' = "tick_eat" /\ score' = score + 10 /\ MachineState = "Play"
            \/ lastOp' = "restart" /\ score' = 0 /\ MachineState = "GameOver"]_vars
    /\ [][lastOp' = "tick_hit" => score' = score]_vars

C20_Witness == lastOp = "tick_hit" /\ lives >= 0 /\ score > 0 /\ ~game_over

====
